---- MODULE Spec2Model ----
(***************************************************************************)
(* Model of vemcap (src/lib.rs): threaded_map and threaded_mutate, which   *)
(* apply a caller-supplied function to every element of a collection,      *)
(* sequentially below THRESHOLD and through rayon's parallel iterators     *)
(* from THRESHOLD on.                                                      *)
(*                                                                         *)
(* Indices are 1-based here (TLA+ sequences); index i of the model is      *)
(* index i-1 of the Rust slice.                                            *)
(*                                                                         *)
(* The parallel path is rayon's indexed bridge: a task over a range is     *)
(* either split at its middle into two tasks that are joined, or folded    *)
(* element by element by one worker thread.  A join completes when both    *)
(* halves have finished, keeps the results in range order, and re-raises   *)
(* the panic of the left half in preference to that of the right half.     *)
(***************************************************************************)
EXTENDS Integers, Sequences, FiniteSets, TLC

\* ---------------------------------------------------------------- bounds
THRESHOLD == 64        \* pub const THRESHOLD: usize = 64
Below == 1             \* lengths THRESHOLD-Below .. THRESHOLD-1 are tried
MaxOver == 1           \* lengths THRESHOLD .. THRESHOLD+MaxOver are tried
MaxSplits == 1         \* splits one parallel call may perform
NumThreads == 2        \* worker threads of the pool
MaxNode == 2 ^ (MaxSplits + 1) - 1

Nodes == 1 .. MaxNode
Workers == 1 .. NumThreads

\* ---------------------------------------------------------------- inputs
\* Small collections of the doc examples (3 and 4 elements), the empty one,
\* and the lengths around the threshold.
Lengths == {0, 3, 4} \cup ((THRESHOLD - Below) .. (THRESHOLD + MaxOver))

\* The closures tried: |x| x.pow(2) and |x| *x += 1 of the examples and
\* tests, alone and with values on which they panic (as the unwrap() of the
\* doc example does on a string that is no number).
Closures ==
    { [kind |-> "square", bad |-> {}],
      [kind |-> "incr", bad |-> {}],
      [kind |-> "incr", bad |-> {40}],
      [kind |-> "square", bad |-> {20, 50}] }

\* (0..len).collect()
MkInput(len) == [i \in 1 .. len |-> i - 1]

\* the value the closure computes
Apply(kind, x) == IF kind = "square" THEN x * x ELSE x + 1

\* does the closure panic on x
Fails(f, x) == x \in f.bad

\* ------------------------------------------------------- threshold policy
\* variant: the comparison includes the threshold itself
UseSequentialInclusive(len) == len <= THRESHOLD

\* src.len() < THRESHOLD
UseSequential(len) == len < THRESHOLD

\* ---------------------------------------------------------------- state
VARIABLES
    op,        \* "map" (threaded_map) or "mutate" (threaded_mutate)
    map,       \* the closure: [kind, bad]
    orig,      \* the collection as the caller passed it
    src,       \* the collection during the call (mutated in place by threaded_mutate)
    pc,        \* "start", "seq", "par", "returned", "panicked"
    path,      \* "none", "seq", "par": the branch the call took
    idx,       \* position of the sequential iterator (next index)
    acc,       \* the collection being built on the sequential path
    out,       \* the collection handed to the caller (<<>> while none is)
    node,      \* the tasks of the parallel path, heap-numbered (1 is the whole range)
    worker,    \* worker |-> the task it is folding, 0 when idle
    splits,    \* splits performed in this call
    calls,     \* index |-> number of invocations of the closure on that element
    failed,    \* indices whose invocation panicked
    panic,     \* index whose panic reached the caller, 0 when none
    run,       \* 1 for the first call, 2 for the repeated call
    firstOut   \* the collection the first call returned

vars == <<op, map, orig, src, pc, path, idx, acc, out, node, worker, splits,
          calls, failed, panic, run, firstOut>>

\* st: "none", "pending" (queued), "running" (being folded by a worker),
\* "split" (waiting in join for its halves), "ok", "panic" (finished),
\* "joined" (finished and consumed by the join of its parent).
\* lo..hi: the range of the task; pos: next index its fold visits;
\* res: the results it has collected; fail: the index whose panic it carries.
NoNode == [st |-> "none", lo |-> 0, hi |-> 0, pos |-> 0, res |-> <<>>, fail |-> 0]

Task(lo, hi) == [NoNode EXCEPT !.st = "pending", !.lo = lo, !.hi = hi]

IdleNodes == [n \in Nodes |-> NoNode]

Init ==
    /\ op \in {"map", "mutate"}
    /\ map \in Closures
    /\ \E len \in Lengths : orig = MkInput(len)
    /\ src = orig
    /\ pc = "start"
    /\ path = "none"
    /\ idx = 0
    /\ acc = <<>>
    /\ out = <<>>
    /\ node = IdleNodes
    /\ worker = [w \in Workers |-> 0]
    /\ splits = 0
    /\ calls = [i \in 1 .. Len(orig) |-> 0]
    /\ failed = {}
    /\ panic = 0
    /\ run = 1
    /\ firstOut = <<>>

\* ------------------------------------------------------------- dispatch
\* the if of threaded_map / threaded_mutate
Dispatch ==
    /\ pc = "start"
    /\ IF UseSequential(Len(src))
       THEN /\ pc' = "seq"
            /\ path' = "seq"
            /\ idx' = 1
            /\ node' = node
       ELSE /\ pc' = "par"
            /\ path' = "par"
            /\ idx' = idx
            /\ node' = [node EXCEPT ![1] = Task(1, Len(src))]
    /\ UNCHANGED <<op, map, orig, src, acc, out, worker, splits, calls, failed,
                   panic, run, firstOut>>

threaded_map ==
    /\ op = "map"
    /\ Dispatch

threaded_mutate ==
    /\ op = "mutate"
    /\ Dispatch

\* ------------------------------------------------------- sequential path
\* variant: the loop goes on after a panic
SeqAdvanceContinue(i, fails) == [pc |-> "seq", idx |-> i + 1]

\* variant: the element whose invocation panicked is tried again
SeqAdvanceRetry(i, fails) ==
    IF fails THEN [pc |-> "seq", idx |-> i]
    ELSE [pc |-> "seq", idx |-> i + 1]

\* variant: the loop steps over the element after the one it visited
SeqAdvanceSkip(i, fails) ==
    IF fails THEN [pc |-> "panicked", idx |-> i]
    ELSE [pc |-> "seq", idx |-> i + 2]

\* where the sequential iterator stands after invoking the closure on index
\* i: a panic unwinds out of the loop, otherwise the loop goes on to i + 1
SeqAdvance(i, fails) ==
    IF fails THEN [pc |-> "panicked", idx |-> i]
    ELSE [pc |-> "seq", idx |-> i + 1]

\* one invocation of the closure by src.into_iter().map(map).collect()
SeqMapStep ==
    /\ pc = "seq"
    /\ op = "map"
    /\ idx <= Len(src)
    /\ calls' = [calls EXCEPT ![idx] = @ + 1]
    /\ pc' = SeqAdvance(idx, Fails(map, src[idx])).pc
    /\ idx' = SeqAdvance(idx, Fails(map, src[idx])).idx
    /\ IF Fails(map, src[idx])
       THEN /\ failed' = failed \cup {idx}
            /\ panic' = idx
            /\ acc' = <<>>
       ELSE /\ acc' = Append(acc, Apply(map.kind, src[idx]))
            /\ UNCHANGED <<failed, panic>>
    /\ UNCHANGED <<op, map, orig, src, path, out, node, worker, splits, run, firstOut>>

\* the iterator is exhausted: collect() returns the collection
SeqMapCollect ==
    /\ pc = "seq"
    /\ op = "map"
    /\ idx > Len(src)
    /\ pc' = "returned"
    /\ out' = acc
    /\ acc' = <<>>
    /\ UNCHANGED <<op, map, orig, src, path, idx, node, worker, splits, calls,
                   failed, panic, run, firstOut>>

\* variant: the view is put back as it was before the call
UnwindRestore(view, before) == before

\* the view after a panic has unwound out of the call: nothing catches the
\* panic and nothing is undone, the elements stay as the invocations left them
Unwind(view, before) == view

\* one invocation of the closure by src.iter_mut().for_each(map)
SeqMutateStep ==
    /\ pc = "seq"
    /\ op = "mutate"
    /\ idx <= Len(src)
    /\ calls' = [calls EXCEPT ![idx] = @ + 1]
    /\ pc' = SeqAdvance(idx, Fails(map, src[idx])).pc
    /\ idx' = SeqAdvance(idx, Fails(map, src[idx])).idx
    /\ IF Fails(map, src[idx])
       THEN /\ failed' = failed \cup {idx}
            /\ panic' = idx
            /\ src' = Unwind(src, orig)
       ELSE /\ src' = [src EXCEPT ![idx] = Apply(map.kind, @)]
            /\ UNCHANGED <<failed, panic>>
    /\ UNCHANGED <<op, map, orig, path, acc, out, node, worker, splits, run, firstOut>>

\* the iterator is exhausted: for_each returns
SeqMutateDone ==
    /\ pc = "seq"
    /\ op = "mutate"
    /\ idx > Len(src)
    /\ pc' = "returned"
    /\ UNCHANGED <<op, map, orig, src, path, idx, acc, out, node, worker, splits,
                   calls, failed, panic, run, firstOut>>

\* --------------------------------------------------------- parallel path
\* rayon splits a range while half of it holds at least one element
CanSplit(t) == (t.hi - t.lo + 1) \div 2 >= 1

\* variant: the left half loses its last element
SplitLeftShort(t) == Task(t.lo, t.lo + (t.hi - t.lo + 1) \div 2 - 2)

\* variant: the left half reaches one element into the right half
SplitLeftLong(t) == Task(t.lo, t.lo + (t.hi - t.lo + 1) \div 2)

\* split_at(len / 2): the left half
SplitLeft(t) == Task(t.lo, t.lo + (t.hi - t.lo + 1) \div 2 - 1)

\* variant: the right half starts one element inside the left half
SplitRightOverlap(t) == Task(t.lo + (t.hi - t.lo + 1) \div 2 - 1, t.hi)

\* split_at(len / 2): the right half
SplitRight(t) == Task(t.lo + (t.hi - t.lo + 1) \div 2, t.hi)

IdleWorkers == {w \in Workers : worker[w] = 0}

\* workers are interchangeable: a task goes to the idle worker of least number
NextWorker == CHOOSE w \in IdleWorkers : \A v \in IdleWorkers : w <= v

\* a worker splits a queued task in two and queues both halves
ParSplit(n) ==
    /\ pc = "par"
    /\ node[n].st = "pending"
    /\ splits < MaxSplits
    /\ 2 * n + 1 <= MaxNode
    /\ CanSplit(node[n])
    /\ IdleWorkers # {}
    /\ node' = [node EXCEPT ![n].st = "split",
                            ![2 * n] = SplitLeft(node[n]),
                            ![2 * n + 1] = SplitRight(node[n])]
    /\ splits' = splits + 1
    /\ UNCHANGED <<op, map, orig, src, pc, path, idx, acc, out, worker, calls,
                   failed, panic, run, firstOut>>

\* a worker takes a queued task and starts folding its range
ParStart(n) ==
    /\ pc = "par"
    /\ node[n].st = "pending"
    /\ IdleWorkers # {}
    /\ worker' = [worker EXCEPT ![NextWorker] = n]
    /\ node' = [node EXCEPT ![n].st = "running", ![n].pos = node[n].lo]
    /\ UNCHANGED <<op, map, orig, src, pc, path, idx, acc, out, splits, calls,
                   failed, panic, run, firstOut>>

\* the task unwinds with the panic of the element at index i
LeafPanic(t, i) == [t EXCEPT !.st = "panic", !.fail = i, !.res = <<>>]

\* one invocation of the closure by into_par_iter().map(map).collect()
ParMapStep(w) ==
    /\ pc = "par"
    /\ op = "map"
    /\ worker[w] # 0
    /\ LET n == worker[w]
           i == node[n].pos
       IN /\ i <= node[n].hi
          /\ calls' = [calls EXCEPT ![i] = @ + 1]
          /\ IF Fails(map, src[i])
             THEN /\ node' = [node EXCEPT ![n] = LeafPanic(node[n], i)]
                  /\ failed' = failed \cup {i}
                  /\ worker' = [worker EXCEPT ![w] = 0]
             ELSE /\ node' = [node EXCEPT
                                ![n].res = Append(@, Apply(map.kind, src[i])),
                                ![n].pos = i + 1]
                  /\ UNCHANGED <<failed, worker>>
    /\ UNCHANGED <<op, map, orig, src, pc, path, idx, acc, out, splits, panic,
                   run, firstOut>>

\* one invocation of the closure by par_iter_mut().for_each(map)
ParMutateStep(w) ==
    /\ pc = "par"
    /\ op = "mutate"
    /\ worker[w] # 0
    /\ LET n == worker[w]
           i == node[n].pos
       IN /\ i <= node[n].hi
          /\ calls' = [calls EXCEPT ![i] = @ + 1]
          /\ IF Fails(map, src[i])
             THEN /\ node' = [node EXCEPT ![n] = LeafPanic(node[n], i)]
                  /\ failed' = failed \cup {i}
                  /\ worker' = [worker EXCEPT ![w] = 0]
                  /\ src' = Unwind(src, orig)
             ELSE /\ src' = [src EXCEPT ![i] = Apply(map.kind, @)]
                  /\ node' = [node EXCEPT ![n].pos = i + 1]
                  /\ UNCHANGED <<failed, worker>>
    /\ UNCHANGED <<op, map, orig, pc, path, idx, acc, out, splits, panic, run,
                   firstOut>>

\* the fold of a task has visited its whole range
ParLeafDone(w) ==
    /\ pc = "par"
    /\ worker[w] # 0
    /\ node[worker[w]].pos > node[worker[w]].hi
    /\ node' = [node EXCEPT ![worker[w]].st = "ok"]
    /\ worker' = [worker EXCEPT ![w] = 0]
    /\ UNCHANGED <<op, map, orig, src, pc, path, idx, acc, out, splits, calls,
                   failed, panic, run, firstOut>>

Finished(t) == t.st \in {"ok", "panic"}

\* variant: a panic of the left half ends the join at once
JoinReadyEager(l, r) == l.st = "panic" \/ (Finished(l) /\ Finished(r))

\* variant: the join waits for the results of both halves
JoinReadyBothOk(l, r) == l.st = "ok" /\ r.st = "ok"

\* both halves have finished
JoinReady(l, r) == Finished(l) /\ Finished(r)

\* variant: the results are put together right half first
JoinResultSwapped(t, l, r) ==
    IF l.st = "panic" THEN [t EXCEPT !.st = "panic", !.fail = l.fail]
    ELSE IF r.st = "panic" THEN [t EXCEPT !.st = "panic", !.fail = r.fail]
    ELSE [t EXCEPT !.st = "ok", !.res = r.res \o l.res]

\* variant: the results of the right half are lost
JoinResultLeftOnly(t, l, r) ==
    IF l.st = "panic" THEN [t EXCEPT !.st = "panic", !.fail = l.fail]
    ELSE IF r.st = "panic" THEN [t EXCEPT !.st = "panic", !.fail = r.fail]
    ELSE [t EXCEPT !.st = "ok", !.res = l.res]

\* variant: a panic of the right half is swallowed
JoinResultSwallow(t, l, r) ==
    IF l.st = "panic" THEN [t EXCEPT !.st = "panic", !.fail = l.fail]
    ELSE [t EXCEPT !.st = "ok", !.res = l.res \o r.res]

\* variant: the panic of the right half is re-raised in preference
JoinResultRightFirst(t, l, r) ==
    IF r.st = "panic" THEN [t EXCEPT !.st = "panic", !.fail = r.fail]
    ELSE IF l.st = "panic" THEN [t EXCEPT !.st = "panic", !.fail = l.fail]
    ELSE [t EXCEPT !.st = "ok", !.res = l.res \o r.res]

\* what join hands to the parent: the panic of the left half, else the panic
\* of the right half, else both results in range order
JoinResult(t, l, r) ==
    IF l.st = "panic" THEN [t EXCEPT !.st = "panic", !.fail = l.fail]
    ELSE IF r.st = "panic" THEN [t EXCEPT !.st = "panic", !.fail = r.fail]
    ELSE [t EXCEPT !.st = "ok", !.res = l.res \o r.res]

\* join returns in the task that split
ParJoin(n) ==
    /\ pc = "par"
    /\ node[n].st = "split"
    /\ JoinReady(node[2 * n], node[2 * n + 1])
    /\ node' = [node EXCEPT
                  ![n] = JoinResult(node[n], node[2 * n], node[2 * n + 1]),
                  ![2 * n] = [@ EXCEPT !.st = "joined", !.res = <<>>],
                  ![2 * n + 1] = [@ EXCEPT !.st = "joined", !.res = <<>>]]
    /\ UNCHANGED <<op, map, orig, src, pc, path, idx, acc, out, worker, splits,
                   calls, failed, panic, run, firstOut>>

\* the whole range has finished: the caller is woken with the collection or
\* with the panic
ParReturn ==
    /\ pc = "par"
    /\ Finished(node[1])
    /\ IF node[1].st = "panic"
       THEN /\ pc' = "panicked"
            /\ panic' = node[1].fail
            /\ out' = out
       ELSE /\ pc' = "returned"
            /\ panic' = panic
            /\ out' = node[1].res
    /\ node' = [node EXCEPT ![1] = [@ EXCEPT !.st = "joined", !.res = <<>>]]
    /\ UNCHANGED <<op, map, orig, src, path, idx, acc, worker, splits, calls,
                   failed, run, firstOut>>

Next ==
    \/ threaded_map
    \/ threaded_mutate
    \/ SeqMapStep
    \/ SeqMapCollect
    \/ SeqMutateStep
    \/ SeqMutateDone
    \/ \E n \in Nodes : ParSplit(n)
    \/ \E n \in Nodes : ParStart(n)
    \/ \E w \in Workers : ParMapStep(w)
    \/ \E w \in Workers : ParMutateStep(w)
    \/ \E w \in Workers : ParLeafDone(w)
    \/ \E n \in Nodes : ParJoin(n)
    \/ ParReturn

Spec == Init /\ [][Next]_vars

\* ---------------------------------------------------- threaded_map alone
InitMap ==
    /\ Init
    /\ op = "map"

NextMap ==
    \/ threaded_map
    \/ SeqMapStep
    \/ SeqMapCollect
    \/ \E n \in Nodes : ParSplit(n)
    \/ \E n \in Nodes : ParStart(n)
    \/ \E w \in Workers : ParMapStep(w)
    \/ \E w \in Workers : ParLeafDone(w)
    \/ \E n \in Nodes : ParJoin(n)
    \/ ParReturn

SpecMap == InitMap /\ [][NextMap]_vars

\* the caller's loop keeps running and the pool keeps scheduling its workers:
\* a step that stays possible is eventually taken
\* The calls whose termination is followed: every length up to the threshold
\* itself, and every closure that panics on some value or squares.
InitFair ==
    /\ Init
    /\ Len(orig) <= THRESHOLD
    /\ (map.bad # {} \/ map.kind = "square")

FairSpec == InitFair /\ [][Next]_vars /\ WF_vars(Next)

\* ------------------------------------------------- the same call, repeated
\* the caller calls threaded_map again with an equal input and the same closure
Rerun ==
    /\ pc = "returned"
    /\ op = "map"
    /\ run = 1
    /\ run' = 2
    /\ firstOut' = out
    /\ src' = orig
    /\ pc' = "start"
    /\ path' = "none"
    /\ idx' = 0
    /\ acc' = <<>>
    /\ out' = <<>>
    /\ node' = IdleNodes
    /\ worker' = [w \in Workers |-> 0]
    /\ splits' = 0
    /\ calls' = [i \in 1 .. Len(orig) |-> 0]
    /\ failed' = {}
    /\ panic' = 0
    /\ UNCHANGED <<op, map, orig>>

NextTwice ==
    \/ Next
    \/ Rerun

SpecTwice == Init /\ [][NextTwice]_vars

\* ================================================================ claims
Indices == 1 .. Len(orig)

Busy == {w \in Workers : worker[w] # 0}

\* C1: the path is decided by the length alone: a call on fewer than
\* THRESHOLD elements runs on the sequential path and never touches a task or
\* a worker, a call on THRESHOLD elements or more runs on the parallel path
\* and never moves the sequential iterator, whatever the elements and the
\* closure are.
C1_PathByLength ==
    /\ pc # "start" =>
          path = (IF Len(orig) < THRESHOLD THEN "seq" ELSE "par")
    /\ path = "seq" => (node = IdleNodes /\ Busy = {})
    /\ path = "par" => (idx = 0 /\ acc = <<>>)

C1_Witness ==
    /\ Len(orig) = THRESHOLD
    /\ path = "par"
    /\ pc = "returned"
    /\ map.bad = {}

\* C2: when threaded_map returns, the element at every index of the input is
\* present in the output at the same index and is the closure's value for it.
C2_OrderPreserved ==
    (pc = "returned" /\ op = "map") =>
        \A i \in Indices :
            /\ i \in DOMAIN out
            /\ out[i] = Apply(map.kind, orig[i])

C2_Witness ==
    /\ pc = "returned"
    /\ op = "map"
    /\ path = "par"
    /\ splits = MaxSplits
    /\ Len(out) > THRESHOLD

\* C3: when threaded_map returns, the output has as many elements as the
\* input, below the threshold and from the threshold on.
C3_LengthPreserved ==
    (pc = "returned" /\ op = "map") => Len(out) = Len(orig)

C3_Witness ==
    /\ pc = "returned"
    /\ op = "map"
    /\ path = "par"
    /\ splits >= 1
    /\ Len(out) = THRESHOLD

\* C4: when threaded_mutate returns, the view has its original length and
\* every element is the closure's value for the original element.
C4_InPlace ==
    (pc = "returned" /\ op = "mutate") =>
        /\ Len(src) = Len(orig)
        /\ \A i \in Indices : src[i] = Apply(map.kind, orig[i])

C4_Witness ==
    /\ pc = "returned"
    /\ op = "mutate"
    /\ path = "par"
    /\ splits >= 1
    /\ src # orig

\* C5: a call in which some invocation of the closure panicked never returns
\* normally.
C5_FailurePropagates ==
    pc = "returned" => failed = {}

C5_Witness ==
    /\ pc = "panicked"
    /\ path = "par"
    /\ Cardinality(failed) = 2
    /\ panic \in failed

\* C6: when threaded_mutate returns, the closure has been invoked exactly
\* once on every element.
C6_ExactlyOnce ==
    (pc = "returned" /\ op = "mutate") => \A i \in Indices : calls[i] = 1

C6_Witness ==
    /\ pc = "returned"
    /\ op = "mutate"
    /\ path = "par"
    /\ splits = MaxSplits
    /\ Len(orig) > THRESHOLD

\* the tasks that own a range: queued, being folded, or finished and not yet
\* joined
Owners == {n \in Nodes : node[n].st \in {"pending", "running", "ok", "panic"}}

Range(n) == node[n].lo .. node[n].hi

\* C7: on the parallel path of threaded_mutate no two workers hold the same
\* element, and the ranges handed out are pairwise disjoint and cover the
\* view.
C7_DisjointCover ==
    (pc = "par" /\ op = "mutate") =>
        /\ \A v, w \in Busy :
              v # w => Range(worker[v]) \cap Range(worker[w]) = {}
        /\ \A m, n \in Owners : m # n => Range(m) \cap Range(n) = {}
        /\ UNION {Range(n) : n \in Owners} = Indices

C7_Witness ==
    /\ pc = "par"
    /\ op = "mutate"
    /\ Cardinality(Busy) = 2
    /\ \A w \in Busy : node[worker[w]].pos > node[worker[w]].lo

\* C8: once a parallel call has returned or panicked to the caller, no worker
\* is folding a task of it and no task is queued or waiting; after a normal
\* return every element has been processed.
C8_SynchronousJoin ==
    (path = "par" /\ pc \in {"returned", "panicked"}) =>
        /\ Busy = {}
        /\ \A n \in Nodes : node[n].st \in {"none", "joined"}
        /\ pc = "returned" => \A i \in Indices : calls[i] >= 1

C8_Witness ==
    /\ path = "par"
    /\ pc = "panicked"
    /\ splits >= 1
    /\ \E i \in Indices : i > panic /\ calls[i] = 1

RECURSIVE SeqMap(_, _)
\* sequential application: the closure's values in input order
SeqMap(kind, s) ==
    IF s = <<>> THEN <<>>
    ELSE <<Apply(kind, Head(s))>> \o SeqMap(kind, Tail(s))

\* C9: threaded_map returns the collection that sequential application
\* yields, whatever the interleaving, and a second call on the same input
\* returns the collection the first call returned.
C9_Deterministic ==
    (pc = "returned" /\ op = "map") =>
        /\ out = SeqMap(map.kind, orig)
        /\ run = 2 => out = firstOut

C9_Witness ==
    /\ pc = "returned"
    /\ op = "map"
    /\ run = 2
    /\ path = "par"
    /\ splits >= 1
    /\ out # <<>>

\* C10: on the sequential path no element after one whose invocation
\* panicked is ever passed to the closure.
C10_SeqAbortsAtFirstFailure ==
    path = "seq" =>
        \A i \in failed : \A j \in Indices : j > i => calls[j] = 0

C10_Witness ==
    /\ path = "seq"
    /\ pc = "panicked"
    /\ panic > 1
    /\ panic < Len(orig)

\* the lowest index on whose element the closure panics (0 when there is none)
LowestBad ==
    LET bad == {i \in Indices : Fails(map, orig[i])}
    IN IF bad = {} THEN 0 ELSE CHOOSE i \in bad : \A j \in bad : i <= j

\* the panics of both halves of task n meet in its join
PanicsMeet(n) ==
    /\ node[n].st = "split"
    /\ node[2 * n].st = "panic"
    /\ node[2 * n + 1].st = "panic"

C12_NoRetryNoPartialResult ==
    /\ \A i \in Indices : calls[i] <= 1
    /\ (op = "map" /\ failed # {}) => (pc # "returned" /\ out = <<>>)

C12_Witness ==
    /\ op = "map"
    /\ path = "par"
    /\ pc = "panicked"
    /\ out = <<>>
    /\ \E i \in Indices : calls[i] = 1 /\ i \notin failed

\* the indices the sequential loop has passed to the closure
SeqVisited == IF pc = "panicked" THEN 1 .. idx ELSE 1 .. (idx - 1)

\* C13: below the threshold no task exists and no worker is busy (every
\* invocation is made by the caller's loop), the elements invoked so far are
\* always an initial stretch 1..k of the input, each invoked once (the loop
\* visits them in input order), and threaded_map has collected exactly the
\* values of the elements visited, in that order.
C13_SequentialInOrder ==
    path = "seq" =>
        /\ Busy = {}
        /\ node = IdleNodes
        /\ \A i \in Indices : calls[i] = (IF i \in SeqVisited THEN 1 ELSE 0)
        /\ (op = "map" /\ pc = "seq") =>
              acc = SeqMap(map.kind, SubSeq(orig, 1, idx - 1))

C13_Witness ==
    /\ path = "seq"
    /\ pc = "seq"
    /\ op = "map"
    /\ idx > 2
    /\ idx <= Len(orig)
    /\ Len(acc) = idx - 1

\* the last output slot task n holds a result for: that of the last position
\* its fold has mapped, or the end of its range once its halves have been
\* joined (lo - 1 when it holds none)
WrittenUpTo(n) ==
    IF node[n].st \notin {"running", "ok"} THEN node[n].lo - 1
    ELSE IF node[n].pos = 0 THEN node[n].hi
    ELSE node[n].pos - 1

\* the last input position the fold of task n has taken (lo - 1 when none)
TakenUpTo(n) ==
    IF node[n].pos = 0 THEN node[n].lo - 1
    ELSE IF node[n].fail # 0 THEN node[n].pos
    ELSE node[n].pos - 1

\* the tasks that are or were folded by a worker
Folded == {n \in Nodes : node[n].pos # 0}

RECURSIVE TakenIn(_)
\* the number of input positions the folds of the tasks in S have taken
TakenIn(S) ==
    IF S = {} THEN 0
    ELSE LET n == CHOOSE x \in S : TRUE
         IN (TakenUpTo(n) - node[n].lo + 1) + TakenIn(S \ {n})

\* C14: on the parallel path of threaded_map every position invoked has been
\* taken by exactly one task, hence one worker, and invoked once; the tasks
\* owning a range never share a position; a task holds one result per
\* position it has mapped, in the slot of that position, and its slots are
\* inside its own range; after a normal return every position has been
\* invoked once and has its slot in the output.
C14_OneWorkerOneSlot ==
    (op = "map" /\ path = "par") =>
        /\ \A i \in Indices : calls[i] <= 1
        /\ \A n \in Folded :
              \A i \in node[n].lo .. TakenUpTo(n) : calls[i] = 1
        /\ \A m, n \in Folded :
              m < n => (\/ TakenUpTo(m) < node[n].lo
                        \/ TakenUpTo(n) < node[m].lo)
        /\ Cardinality({i \in Indices : calls[i] # 0}) = TakenIn(Folded)
        /\ pc = "par" =>
              \A m, n \in Owners :
                  m # n => (node[m].hi < node[n].lo \/ node[n].hi < node[m].lo)
        /\ \A n \in Nodes :
              /\ WrittenUpTo(n) <= node[n].hi
              /\ Len(node[n].res) = WrittenUpTo(n) - node[n].lo + 1
              /\ \A k \in 1 .. Len(node[n].res) :
                    node[n].res[k] = Apply(map.kind, orig[node[n].lo + k - 1])
        /\ pc = "returned" =>
              /\ \A i \in Indices : calls[i] = 1
              /\ DOMAIN out = Indices

C14_Witness ==
    /\ op = "map"
    /\ pc = "par"
    /\ Cardinality(Busy) = 2
    /\ \A w \in Busy : Len(node[worker[w]].res) >= 2

\* C15: under fair scheduling every call eventually returns to the caller,
\* normally or with a panic, on the sequential and on the parallel path.
C15_EventuallyReturns == <>(pc \in {"returned", "panicked"})

C15_Witness ==
    /\ path = "par"
    /\ pc = "panicked"
    /\ splits = MaxSplits
    /\ Cardinality(failed) = 1

\* C16: when the closure panics at index k on the sequential path of
\* threaded_mutate, the view keeps its length, every element before k holds
\* its mutated value and every element after k its original value.
C16_PartialUpdateOnFailure ==
    (path = "seq" /\ op = "mutate" /\ pc = "panicked") =>
        /\ Len(src) = Len(orig)
        /\ \A i \in Indices :
              /\ i < panic => src[i] = Apply(map.kind, orig[i])
              /\ i > panic => src[i] = orig[i]

C16_Witness ==
    /\ path = "seq"
    /\ op = "mutate"
    /\ pc = "panicked"
    /\ panic > 1
    /\ panic < Len(orig)
    /\ src # orig
====
